---- MODULE Spec2Model ----
(***************************************************************************)
(* Model of the SolaX-X1 Mini RS485 daemon (src/solaxd.c): the frame       *)
(* codec (solax_CalculateCRC, solax_RS485_Send, solax_RS485_Receive), the  *)
(* reply classification (solax_ReceiveQuery) and the query state machine   *)
(* (solax_QueryHandle).                                                    *)
(*                                                                         *)
(* Bytes are naturals 0..255.  A C array a[] is a sequence; the C element  *)
(* a[i] is the TLA+ element a[i + 1].                                      *)
(***************************************************************************)
EXTENDS Integers, Sequences, FiniteSets, TLC

VARIABLES
    stateQuery,                  \* static stateQuery of solax_QueryHandle
    countError,                  \* static countError of solax_QueryHandle
    timeoutInverterOnline,       \* static timeoutInverterOnline of solax_QueryHandle
    solax_InverterOnline,        \* global solax_InverterOnline
    solax_InverterSerialNumber,  \* global solax_InverterSerialNumber, bytes 0..13
    rxMessage,                   \* static rxMessage of solax_ReceiveQuery, as its 109 bytes
    liveData,                    \* the sample *liveData written by the last solax_ReceiveQuery
    errorRx,                     \* result of the last receive
    txMessage,                   \* the message struct last handed to solax_RS485_Send
    tty_tx,                      \* the bytes of the last write(fd_tty, ...)
    tty_rx,                      \* the bytes waiting on the serial device for the next read
    rxLen,                       \* rxLen of the last solax_RS485_Receive
    fault,                       \* what the serial line did to the frame in transit
    sinceLive,                   \* history: calls completed since the last call that
                                 \* decoded a live-data reply (TicksCap: that many or more)
    pc,                          \* position of the process
    main_liveData,               \* liveData[MAX_INDEX_OF_LIVE_DATA + 1] of main, slots 0..99
    index,                       \* index of main
    solax_LiveData,              \* global solax_LiveData, the averaged sample
    solax_QualityOfService,      \* global solax_QualityOfService
    cnt,                         \* local cnt of solax_LiveData_Average
    httpResponse,                \* what poll_HTTP_Server wrote to a client in this pass
    main_pc,                     \* position in the body of main's while (1)
    ticks,                       \* history: passes of the loop completed
    validCount,                  \* history: passes so far whose sample was valid
    lastPublished,               \* history: the lifetime values published by the pass before
    script,                      \* what the serial line delivers in each pass
    writtenAt                    \* history: the pass that last wrote each history slot

\* the variables of main's loop around solax_QueryHandle
mainVars == << main_liveData, index, solax_LiveData, solax_QualityOfService, cnt,
               httpResponse, main_pc, ticks, validCount, lastPublished, script,
               writtenAt >>

vars == << stateQuery, countError, timeoutInverterOnline, solax_InverterOnline,
           solax_InverterSerialNumber, rxMessage, liveData, errorRx, txMessage,
           tty_tx, tty_rx, rxLen, fault, sinceLive, pc, mainVars >>

(***************************************************************************)
(* Bounds of the model                                                     *)
(***************************************************************************)
\* sinceLive counts up to here
TicksCap == 31
\* the serial line appends up to this many bytes to a frame
MaxTrailing == 2
\* payloads of one repeated byte are sent up to this length
MaxPlainLen == 2
\* every bit is inverted in the payloads up to this length (and in the
\* payloads of the lengths 14, 15, 50 and 98)
MaxFlipLen == 8
\* main's loop is followed for this many passes
MaxTicks == 105
\* the inverter starts to answer every query after this many passes at the latest
MaxOutage == 11

(***************************************************************************)
(* Program constants                                                       *)
(***************************************************************************)
TIMEOUT_INVERTER_ONLINE == 30
DEFAULT_AVERAGE_SAMPLES == 10
QUALITY_OF_SERVICE_COUNT == 100
MAX_INDEX_OF_LIVE_DATA == QUALITY_OF_SERVICE_COUNT - 1
DEFAULT_INVERTER_ADDRESS == 10
arg_InverterAddr == DEFAULT_INVERTER_ADDRESS

ERR_NONE == 0
ERR_NO_DATA == 1
ERR_INVALID_MSG == 2
ERR_CRC_ERROR == 3
\* solax_RS485_Send / solax_RS485_Receive "return -1": the transport failed
ERR_FATAL == -1
\* not a value of the code: the call does not return (see CalculateCRC_Returns)
NO_RETURN == 99

STATE_BROARDCAST == "STATE_BROARDCAST"
STATE_INVERTER_ADDRESS == "STATE_INVERTER_ADDRESS"
STATE_QUERY_LIVE_DATA == "STATE_QUERY_LIVE_DATA"

\* sizeof(Solax_Message_t): Header 2, Source 2, Destination 2, ControlCode,
\* FunctionCode, DataLength, Data[100]
SizeofMessage == 109
\* sizeof Data
SizeofData == 100

Byte == 0..255
Pow2(k) == 2 ^ k
Min(a, b) == IF a < b THEN a ELSE b

\* C element a[i] of the array modelled by the sequence a
At(a, i) == a[i + 1]

\* conversion to uint8_t / uint16_t
U8(n) == n % 256
U16(n) == n % 65536

\* lowByte(i) ( (uint8_t) i ), highByte(i) ( (uint8_t) ( ((int) i) >> 8) )
lowByte(i) == U8(i)
highByte(i) == U8(i \div 256)

(***************************************************************************)
(* Solax_Message_t                                                         *)
(***************************************************************************)
\* the bytes of the struct up to the end of the payload, in memory order
MessageBytes(m) ==
    << 170, 85 >> \o m.Source \o m.Destination
      \o << m.ControlCode, m.FunctionCode, m.DataLength >> \o m.Data

\* field access on the raw bytes of a Solax_Message_t
Header(b) == SubSeq(b, 1, 2)
Source(b) == SubSeq(b, 3, 4)
Destination(b) == SubSeq(b, 5, 6)
ControlCode(b) == At(b, 6)
FunctionCode(b) == At(b, 7)
DataLength(b) == At(b, 8)
Data(b, i) == At(b, 9 + i)

(***************************************************************************)
(* solax_CalculateCRC                                                      *)
(***************************************************************************)
\* for (i = 0; i <= dataLen; i++) with uint8_t i, dataLen: i <= 255 holds for
\* every uint8_t i, so the loop is left only when dataLen < 255
CalculateCRC_Returns(dataLen) == dataLen < 255

\* chkSum after the iterations i = lo..hi of "chkSum = chkSum + data[i]" begun
\* at 0.  uint16_t addition is associative, so the range is summed by halves
\* (the recursion is then 7 deep for the longest frame, not 109).
RECURSIVE CrcLoop(_, _, _)
CrcLoop(data, lo, hi) ==
    IF lo > hi THEN 0
    ELSE IF lo = hi THEN U16(At(data, lo))
    ELSE LET mid == (lo + hi) \div 2
         IN  U16(CrcLoop(data, lo, mid) + CrcLoop(data, mid + 1, hi))

\* faulty variant: the loop stops one byte early (i < dataLen)
CalculateCRC_OffByOne(data, dataLen) == CrcLoop(data, 0, dataLen - 1)

\* for (i = 0; i <= dataLen; i++)
solax_CalculateCRC(data, dataLen) == CrcLoop(data, 0, dataLen)

(***************************************************************************)
(* solax_RS485_Send: the bytes handed to write(fd_tty, txMessage, msgLen)  *)
(***************************************************************************)
\* faulty variant: the checksum bytes are stored low byte first
SendBytes_LowFirst(m) ==
    LET msgLen == U8(m.DataLength + 9)
        bytes  == MessageBytes(m)
        crc    == solax_CalculateCRC(bytes, U8(msgLen - 1))
    IN  SubSeq(bytes, 1, msgLen) \o << lowByte(crc), highByte(crc) >>

\* Header, msgLen, crc and the bytes write() is given: msgLen bytes of the
\* struct with the checksum stored behind the payload, high byte first
SendBytes(m) ==
    LET msgLen == U8(m.DataLength + 9)
        bytes  == MessageBytes(m)
        crc    == solax_CalculateCRC(bytes, U8(msgLen - 1))
    IN  SubSeq(bytes, 1, msgLen) \o << highByte(crc), lowByte(crc) >>

solax_RS485_Send(m) == SendBytes(m)

(***************************************************************************)
(* solax_RS485_Receive                                                     *)
(***************************************************************************)
\* read(fd_tty, rxMessage, sizeof(Solax_Message_t)): at most 109 bytes are
\* stored, and the bytes of the static buffer behind them keep their value
ReadLen(bytes) == Min(Len(bytes), SizeofMessage)
ReadInto(buf, bytes) ==
    [i \in 1..SizeofMessage |-> IF i <= Len(bytes) THEN bytes[i] ELSE buf[i]]

\* faulty variant: the read must end with the frame
LengthFails_Exact(msgLen, len) == (msgLen + 2) # len

\* (msgLen + 2) > rxLen
LengthFails(msgLen, len) == (msgLen + 2) > len

\* faulty variant: only the high checksum byte is compared
CrcDiffers_HighOnly(buf, crc) ==
    Data(buf, DataLength(buf) + 0) # highByte(crc)

\* rxMessage->Data[DataLength + 0] != highByte(crc) || ...[DataLength + 1] != lowByte(crc)
CrcDiffers(buf, crc) ==
    \/ Data(buf, DataLength(buf) + 0) # highByte(crc)
    \/ Data(buf, DataLength(buf) + 1) # lowByte(crc)

\* The set of results the call can have on the buffer contents buf after a
\* read of len bytes (rxLen).  msgLen is a uint8_t: DataLength + 9 wraps at 256.
\* With DataLength >= 247 the length check passes on the wrapped msgLen;
\* then for msgLen = 0 the checksum loop runs with dataLen = 255 and never
\* returns, and for msgLen = 1..8 the checksum bytes are read at
\* Data[248..256], outside the object: either comparison result can come out.
solax_RS485_Receive(buf, len) ==
    IF len < 0 THEN { ERR_FATAL }
    ELSE IF len = 0 THEN { ERR_NO_DATA }
    ELSE IF (len < 11) \/ (At(buf, 0) # 170) \/ (At(buf, 1) # 85)
    THEN { ERR_INVALID_MSG }
    ELSE LET msgLen == U8(DataLength(buf) + 9) IN
         IF LengthFails(msgLen, len) THEN { ERR_INVALID_MSG }
         ELSE IF ~CalculateCRC_Returns(U8(msgLen - 1)) THEN { NO_RETURN }
         ELSE IF DataLength(buf) + 1 >= SizeofData THEN { ERR_CRC_ERROR, ERR_NONE }
         ELSE IF CrcDiffers(buf, solax_CalculateCRC(buf, U8(msgLen - 1)))
              THEN { ERR_CRC_ERROR }
              ELSE { ERR_NONE }

(***************************************************************************)
(* Solax_LiveData_t.  The float fields are kept in the unit of their raw   *)
(* register: Energy_Today, DCx_Voltage, DCx_Current, AC_Current,           *)
(* AC_Voltage and Energy_Total in tenths, Frequency in hundredths, the     *)
(* others in units.                                                        *)
(***************************************************************************)
\* (Solax_LiveData_t) {0}
ZeroLiveData ==
    [ valid |-> FALSE, Temperature |-> 0, Energy_Today |-> 0, DC1_Voltage |-> 0,
      DC2_Voltage |-> 0, DC1_Current |-> 0, DC2_Current |-> 0, AC_Current |-> 0,
      AC_Voltage |-> 0, Frequency |-> 0, Power |-> 0, Energy_Total |-> 0,
      Runtime_Total |-> 0, Status |-> 0, ErrorBits |-> 0 ]

\* faulty variant: the low byte comes first
Word_LowFirst(buf, i) == Data(buf, i) + Data(buf, i + 1) * 256

\* (Data[i] << 8) | Data[i + 1]
Word(buf, i) == Data(buf, i) * 256 + Data(buf, i + 1)
\* (Data[i] << 24) | (Data[i + 1] << 16) | (Data[i + 2] << 8) | Data[i + 3].
\* The shift by 24 is done in int: it is defined for Data[i] < 128 only, and
\* the frames of this model keep that byte below 128.
Long(buf, i) ==
    Data(buf, i) * 16777216 + Data(buf, i + 1) * 65536
      + Data(buf, i + 2) * 256 + Data(buf, i + 3)
\* (Data[49] << 24) | (Data[48] << 16) | (Data[47] << 8) | Data[46]
ErrorCode(buf) ==
    Data(buf, 49) * 16777216 + Data(buf, 48) * 65536
      + Data(buf, 47) * 256 + Data(buf, 46)

\* the else branch of case STATE_QUERY_LIVE_DATA, on *liveData = {0}
DecodeLiveData(buf) ==
    [ valid         |-> TRUE,
      Temperature   |-> Word(buf, 0),
      Energy_Today  |-> Word(buf, 2),
      DC1_Voltage   |-> Word(buf, 4),
      DC2_Voltage   |-> Word(buf, 6),
      DC1_Current   |-> Word(buf, 8),
      DC2_Current   |-> Word(buf, 10),
      AC_Current    |-> Word(buf, 12),
      AC_Voltage    |-> Word(buf, 14),
      Frequency     |-> Word(buf, 16),
      Power         |-> Word(buf, 18),
      Energy_Total  |-> IF Long(buf, 22) # 0 THEN Long(buf, 22) ELSE 0,
      Runtime_Total |-> IF Long(buf, 26) # 0 THEN Long(buf, 26) ELSE 0,
      Status        |-> U8(Word(buf, 30)),
      ErrorBits     |-> ErrorCode(buf) ]

(***************************************************************************)
(* solax_ReceiveQuery, after solax_RS485_Receive returned error /= -1      *)
(***************************************************************************)
\* the last else branch of case STATE_BROARDCAST is taken
BroadcastAccepted(buf, error) ==
    /\ error # ERR_NO_DATA
    /\ error # ERR_CRC_ERROR
    /\ ~((error = ERR_INVALID_MSG) \/ (ControlCode(buf) # 16) \/ (FunctionCode(buf) # 128))

\* the last else branch of case STATE_INVERTER_ADDRESS is taken
AddressAccepted(buf, error) ==
    /\ error # ERR_NO_DATA
    /\ error # ERR_CRC_ERROR
    /\ ~((error = ERR_INVALID_MSG) \/ (ControlCode(buf) # 16) \/ (FunctionCode(buf) # 129)
           \/ (Data(buf, 0) # 6))

\* faulty variant: the function code is compared with that of the broadcast reply
LiveDataAccepted_BroadcastCode(buf, error) ==
    /\ error # ERR_NO_DATA
    /\ error # ERR_CRC_ERROR
    /\ ~((error = ERR_INVALID_MSG) \/ (ControlCode(buf) # 17) \/ (FunctionCode(buf) # 128))

\* the last else branch of case STATE_QUERY_LIVE_DATA is taken
LiveDataAccepted(buf, error) ==
    /\ error # ERR_NO_DATA
    /\ error # ERR_CRC_ERROR
    /\ ~((error = ERR_INVALID_MSG) \/ (ControlCode(buf) # 17) \/ (FunctionCode(buf) # 130))

\* faulty variant: a reply that is not accepted leaves the sample as it was
ReceiveQuery_liveData_Stale(state, buf, error) ==
    IF state = STATE_QUERY_LIVE_DATA /\ LiveDataAccepted(buf, error)
    THEN DecodeLiveData(buf)
    ELSE liveData

\* *liveData after the call
ReceiveQuery_liveData(state, buf, error) ==
    IF state = STATE_QUERY_LIVE_DATA /\ LiveDataAccepted(buf, error)
    THEN DecodeLiveData(buf)
    ELSE ZeroLiveData

\* solax_InverterSerialNumber[0..13] after the call
ReceiveQuery_serial(state, buf, error, serial) ==
    IF state = STATE_BROARDCAST /\ BroadcastAccepted(buf, error)
    THEN [i \in 1..14 |-> Data(buf, i - 1)]
    ELSE serial

\* the value solax_ReceiveQuery returns: the result of solax_RS485_Receive,
\* which the switch does not change
ReceiveQuery_return(state, buf, error) == error

(***************************************************************************)
(* solax_QueryHandle                                                       *)
(***************************************************************************)
\* faulty variant: every state gives up after three errors
ErrorThreshold_AllThree(state) == 3

\* the bound of "if (countError >= ...)" in the case of each state
ErrorThreshold(state) ==
    CASE state = STATE_BROARDCAST -> 10
      [] state = STATE_INVERTER_ADDRESS -> 3
      [] state = STATE_QUERY_LIVE_DATA -> 3

\* faulty variant: AwaitingBroadcast starts over when it gives up
FallbackState_BroadcastAgain(state) == STATE_BROARDCAST

\* the state assigned when the bound is reached
FallbackState(state) ==
    CASE state = STATE_BROARDCAST -> STATE_QUERY_LIVE_DATA
      [] state = STATE_INVERTER_ADDRESS -> STATE_BROARDCAST
      [] state = STATE_QUERY_LIVE_DATA -> STATE_BROARDCAST

\* the if (errorRx) branch, the same in the three cases but for the bound and
\* the state: countError++; if (countError >= bound) { countError = 0; stateQuery = ... }
SwitchOnError(state, count, timeout) ==
    IF count + 1 >= ErrorThreshold(state)
    THEN [stateQuery |-> FallbackState(state), countError |-> 0,
          timeoutInverterOnline |-> timeout]
    ELSE [stateQuery |-> state, countError |-> count + 1,
          timeoutInverterOnline |-> timeout]

\* faulty variant: the else branches move on without countError = 0
SwitchOnSuccess_KeepsCount(state, count, timeout) ==
    CASE state = STATE_BROARDCAST ->
           [stateQuery |-> STATE_INVERTER_ADDRESS, countError |-> count,
            timeoutInverterOnline |-> timeout]
      [] state = STATE_INVERTER_ADDRESS ->
           [stateQuery |-> STATE_QUERY_LIVE_DATA, countError |-> count,
            timeoutInverterOnline |-> timeout]
      [] state = STATE_QUERY_LIVE_DATA ->
           [stateQuery |-> state, countError |-> count, timeoutInverterOnline |-> 0]

\* the else branches of if (errorRx)
SwitchOnSuccess(state, count, timeout) ==
    CASE state = STATE_BROARDCAST ->
           [stateQuery |-> STATE_INVERTER_ADDRESS, countError |-> 0,
            timeoutInverterOnline |-> timeout]
      [] state = STATE_INVERTER_ADDRESS ->
           [stateQuery |-> STATE_QUERY_LIVE_DATA, countError |-> 0,
            timeoutInverterOnline |-> timeout]
      [] state = STATE_QUERY_LIVE_DATA ->
           [stateQuery |-> state, countError |-> count, timeoutInverterOnline |-> 0]

\* switch (stateQuery): the state, the error count and the online-timeout
\* counter after it
QuerySwitch(state, count, timeout, errRx) ==
    IF errRx # 0
    THEN SwitchOnError(state, count, timeout)
    ELSE SwitchOnSuccess(state, count, timeout)

\* faulty variant: the else branch does not set the flag
OnlineUpdate_NeverOn(online, timeout) ==
    IF online
    THEN [solax_InverterOnline  |-> ~(timeout + 1 >= TIMEOUT_INVERTER_ONLINE),
          timeoutInverterOnline |-> timeout + 1]
    ELSE [solax_InverterOnline  |-> FALSE,
          timeoutInverterOnline |-> timeout]

\* if (solax_InverterOnline == true) ... else ...: the flag and the counter after it
OnlineUpdate(online, timeout) ==
    IF online
    THEN [solax_InverterOnline  |-> ~(timeout + 1 >= TIMEOUT_INVERTER_ONLINE),
          timeoutInverterOnline |-> timeout + 1]
    ELSE [solax_InverterOnline  |-> (timeout = 0),
          timeoutInverterOnline |-> timeout]

(***************************************************************************)
(* solax_SendQuery: the message struct handed to solax_RS485_Send          *)
(***************************************************************************)
Send_Broardcast ==
    [ Source |-> << 1, 0 >>, Destination |-> << 0, 0 >>, ControlCode |-> 16,
      FunctionCode |-> 0, DataLength |-> 0, Data |-> << >> ]

Send_InverterAddress(serial) ==
    [ Source |-> << 0, 0 >>, Destination |-> << 0, 0 >>, ControlCode |-> 16,
      FunctionCode |-> 1, DataLength |-> 15,
      Data |-> serial \o << U8(arg_InverterAddr) >> ]

\* faulty variant: the bus address is stored in Destination[0]
Send_QueryLiveData_AddrFirst ==
    [ Source |-> << 1, 0 >>, Destination |-> << U8(arg_InverterAddr), 0 >>,
      ControlCode |-> 17, FunctionCode |-> 2, DataLength |-> 0, Data |-> << >> ]

Send_QueryLiveData ==
    [ Source |-> << 1, 0 >>, Destination |-> << 0, U8(arg_InverterAddr) >>,
      ControlCode |-> 17, FunctionCode |-> 2, DataLength |-> 0, Data |-> << >> ]

\* faulty variant: the query is chosen by the state the call started in
SendQuery_StateBefore(state, serial) ==
    CASE stateQuery = STATE_BROARDCAST -> Send_Broardcast
      [] stateQuery = STATE_INVERTER_ADDRESS -> Send_InverterAddress(serial)
      [] stateQuery = STATE_QUERY_LIVE_DATA -> Send_QueryLiveData

\* switch (stateQuery) of solax_SendQuery
SendQuery(state, serial) ==
    CASE state = STATE_BROARDCAST -> Send_Broardcast
      [] state = STATE_INVERTER_ADDRESS -> Send_InverterAddress(serial)
      [] state = STATE_QUERY_LIVE_DATA -> Send_QueryLiveData

(***************************************************************************)
(* What the serial line can deliver to one read                            *)
(***************************************************************************)
\* the literal sample replies of solax_RS485_Receive's test mode
rx_msg_1 ==
    << 170, 85, 0, 255, 1, 0, 16, 128, 14, 49, 50, 51, 52, 53, 54, 55, 55, 54,
       53, 52, 51, 50, 49, 5, 117 >>
rx_msg_2 == << 170, 85, 0, 10, 0, 0, 16, 129, 1, 6, 1, 161 >>
rx_msg_3 ==
    << 170, 85, 0, 10, 1, 0, 17, 130, 50, 0, 11, 0, 1, 6, 221, 0, 0, 0, 31, 0,
       0, 0, 21, 9, 33, 19, 135, 1, 231, 255, 255, 0, 0, 18, 211, 0, 0, 10, 15,
       0, 2, 0, 0, 0, 0, 0, 0, 0, 0, 0, 0, 0, 0, 0, 0, 0, 0, 0, 0, 7, 156 >>
rx_msg_4 ==
    << 170, 85, 0, 10, 1, 0, 17, 130, 50, 0, 11, 0, 1, 6, 203, 0, 0, 0, 30, 0,
       0, 0, 20, 9, 34, 19, 137, 1, 215, 255, 255, 0, 0, 18, 211, 0, 0, 10, 15,
       0, 2, 0, 0, 0, 0, 0, 0, 0, 0, 0, 0, 0, 0, 0, 0, 0, 0, 0, 0, 7, 123 >>

\* a frame as the inverter puts it on the line: the same framing as the daemon's
InverterFrame(src, dst, cc, fc, data) ==
    SendBytes([ Source |-> src, Destination |-> dst, ControlCode |-> cc,
                FunctionCode |-> fc, DataLength |-> Len(data), Data |-> data ])

\* s with the element at C index i replaced by v
WithByte(s, i, v) == [s EXCEPT ![i + 1] = v]

\* a broadcast reply of another inverter (serial "ABCDEFGHIJKLMN")
rx_broadcast_other ==
    InverterFrame(<< 0, 255 >>, << 1, 0 >>, 16, 128,
                  << 65, 66, 67, 68, 69, 70, 71, 72, 73, 74, 75, 76, 77, 78 >>)
\* an address reply that does not confirm (payload byte 0 is not 0x06)
rx_address_nak == InverterFrame(<< 0, 10 >>, << 0, 0 >>, 16, 129, << 21 >>)
\* rx_msg_2 with its last checksum byte damaged
rx_crc_damaged == WithByte(rx_msg_2, 11, 162)
\* the serial line delivered what was sent
NoFault == [kind |-> "none", pos |-> 0, bit |-> 0]

\* the first three bytes of a reply
rx_short == SubSeq(rx_msg_1, 1, 3)
\* eleven bytes with a good marker and a declared payload length of 247 and 248
rx_length_247 == << 170, 85, 0, 10, 1, 0, 17, 130, 247, 0, 0 >>
rx_length_248 == << 170, 85, 0, 10, 1, 0, 17, 130, 248, 0, 0 >>

\* the reads of the daemon's runs: nothing, the replies, and damaged frames
RxInputs ==
    { << >>, rx_msg_1, rx_msg_2, rx_msg_3, rx_address_nak, rx_crc_damaged, rx_short }

\* reads whose declared payload length makes msgLen wrap
RxWrapInputs == { rx_length_247, rx_length_248 }

\* a live-data reply like rx_msg_3 whose Energy_Total and Runtime_Total
\* registers (Data[22..29]) are zero
rx_live_zero ==
    InverterFrame(<< 0, 10 >>, << 1, 0 >>, 17, 130,
                  [i \in 1..50 |-> IF i \in 23..30 THEN 0 ELSE rx_msg_3[9 + i]])

\* What the line delivers to main's loop, pass by pass.  In pass t the
\* inverter answers the query of the state the daemon is in when
\* (t * mult) % period < answered, with the frames of live taken in turn for
\* the live-data reply; in every other pass the read delivers silent.
\* samples is the value of the option -s (arg_AV_Samples).
Scripts ==
    { [ mult |-> 1, period |-> 1, answered |-> 1, live |-> << rx_msg_3 >>,
        silent |-> << >>, samples |-> DEFAULT_AVERAGE_SAMPLES ],
      [ mult |-> 37, period |-> 100, answered |-> 37, live |-> << rx_msg_3, rx_msg_4 >>,
        silent |-> rx_msg_1, samples |-> DEFAULT_AVERAGE_SAMPLES ],
      [ mult |-> 1, period |-> 1, answered |-> 1, live |-> << rx_msg_3, rx_live_zero >>,
        silent |-> << >>, samples |-> 2 ],
      [ mult |-> 1, period |-> 20, answered |-> 15, live |-> << rx_msg_3 >>,
        silent |-> << >>, samples |-> DEFAULT_AVERAGE_SAMPLES ],
      [ mult |-> 3, period |-> 7, answered |-> 4, live |-> << rx_msg_4, rx_live_zero >>,
        silent |-> rx_crc_damaged, samples |-> 0 ],
      [ mult |-> 2, period |-> 5, answered |-> 3, live |-> << rx_msg_3 >>,
        silent |-> rx_short, samples |-> 2 ],
      [ mult |-> 1, period |-> 1, answered |-> 0, live |-> << rx_msg_3 >>,
        silent |-> << >>, samples |-> DEFAULT_AVERAGE_SAMPLES ],
      [ mult |-> 1, period |-> 1, answered |-> 0, live |-> << rx_msg_3 >>,
        silent |-> rx_short, samples |-> DEFAULT_AVERAGE_SAMPLES ],
      [ mult |-> 1, period |-> 1, answered |-> 0, live |-> << rx_msg_3 >>,
        silent |-> rx_crc_damaged, samples |-> DEFAULT_AVERAGE_SAMPLES ],
      [ mult |-> 1, period |-> 8, answered |-> 1, live |-> << rx_msg_3 >>,
        silent |-> << >>, samples |-> DEFAULT_AVERAGE_SAMPLES ],
      [ mult |-> 1, period |-> 8, answered |-> 1, live |-> << rx_msg_3 >>,
        silent |-> rx_short, samples |-> DEFAULT_AVERAGE_SAMPLES ],
      [ mult |-> 1, period |-> 8, answered |-> 1, live |-> << rx_msg_3 >>,
        silent |-> rx_crc_damaged, samples |-> DEFAULT_AVERAGE_SAMPLES ],
      [ mult |-> 1, period |-> 9, answered |-> 8, live |-> << rx_msg_3 >>,
        silent |-> rx_length_247, samples |-> DEFAULT_AVERAGE_SAMPLES ],
      [ mult |-> 1, period |-> 50, answered |-> 49, live |-> << rx_live_zero >>,
        silent |-> rx_length_248, samples |-> DEFAULT_AVERAGE_SAMPLES ] }

\* the reply of the inverter to the query of state, live being its live-data reply
Reply(state, live) ==
    CASE state = STATE_BROARDCAST -> rx_msg_1
      [] state = STATE_INVERTER_ADDRESS -> rx_msg_2
      [] state = STATE_QUERY_LIVE_DATA -> live

\* the bytes read() delivers in pass t under the script s
ScriptRead(s, t, state) ==
    IF (t * s.mult) % s.period < s.answered
    THEN Reply(state, s.live[(t % Len(s.live)) + 1])
    ELSE s.silent

\* solax_RS485_Receive on each of these reads.  The call reads rxMessage
\* below rxLen only (Header, DataLength, the msgLen summed bytes and the two
\* checksum bytes, with msgLen + 2 <= rxLen), or outside the object when msgLen
\* wraps, so its results are those on a buffer that held zeros before the read.
ZeroBuffer == [i \in 1..SizeofMessage |-> 0]
ReceiveOfRead ==
    [bytes \in RxInputs \cup RxWrapInputs
                  \cup { rx_msg_4, rx_broadcast_other, rx_live_zero } |->
        solax_RS485_Receive(ReadInto(ZeroBuffer, bytes), ReadLen(bytes))]

(***************************************************************************)
(* main's data.  A summed field of solax_LiveData is the fraction          *)
(* num / den of raw units (den is 1 until the division by cnt); the float  *)
(* rounding of the sums is left out.  solax_QualityOfService is the        *)
(* fraction qos / (max_idx + 1).                                           *)
(***************************************************************************)
SumFields ==
    { "Temperature", "DC1_Voltage", "DC2_Voltage", "DC1_Current", "DC2_Current",
      "AC_Current", "AC_Voltage", "Frequency", "Power" }
MaxFields == { "Energy_Today", "Energy_Total", "Runtime_Total", "Status" }

\* solax_LiveData = (Solax_LiveData_t) {0}
ZeroAverage ==
    [f \in DOMAIN ZeroLiveData |->
        IF f \in SumFields THEN [num |-> 0, den |-> 1]
        ELSE IF f = "valid" THEN FALSE
        ELSE 0]

\* no connection was accepted in this pass
NoResponse == << >>
\* no pass has written the slot: it holds the {0} of main's initializer
NotWritten == -1

\* main's locals and the globals it publishes, before the first pass
InitLoop ==
    /\ main_liveData = [i \in 0..MAX_INDEX_OF_LIVE_DATA |-> ZeroLiveData]
    /\ index = 0
    /\ solax_LiveData = ZeroAverage
    /\ solax_QualityOfService = [num |-> 0, den |-> 1]
    /\ cnt = 0
    /\ httpResponse = NoResponse
    /\ main_pc = "call"
    /\ ticks = 0
    /\ validCount = 0
    /\ lastPublished = [Energy_Total |-> 0, Runtime_Total |-> 0]
    /\ writtenAt = [i \in 0..MAX_INDEX_OF_LIVE_DATA |-> NotWritten]

\* the daemon's calls are followed without main's loop around them
NoScript == << >>

(***************************************************************************)
(* The daemon: one call of solax_QueryHandle per step                      *)
(***************************************************************************)
InitDaemon ==
    /\ stateQuery = STATE_QUERY_LIVE_DATA
    /\ timeoutInverterOnline = TIMEOUT_INVERTER_ONLINE
    /\ countError = 0
    /\ solax_InverterOnline = FALSE
    /\ solax_InverterSerialNumber = [i \in 1..14 |-> 0]
    /\ rxMessage = ZeroBuffer
    /\ liveData = ZeroLiveData
    /\ errorRx = ERR_NONE
    /\ txMessage = Send_Broardcast
    /\ tty_tx = << >>
    /\ tty_rx = << >>
    /\ rxLen = 0
    /\ fault = NoFault
    /\ sinceLive = TicksCap
    /\ pc = "run"

Init == InitDaemon /\ InitLoop /\ script = NoScript

\* faulty variant: the failed read is taken for an empty one and the daemon goes on
QueryHandle_ReadFails_GoesOn ==
    /\ pc = "run"
    /\ pc' = "run"
    /\ errorRx' = ERR_NO_DATA
    /\ rxLen' = -1
    /\ UNCHANGED << stateQuery, countError, timeoutInverterOnline,
                    solax_InverterOnline, solax_InverterSerialNumber, rxMessage,
                    liveData, txMessage, tty_tx, tty_rx, fault >>

\* read() fails: solax_RS485_Receive, solax_ReceiveQuery and solax_QueryHandle
\* return -1 and main leaves the loop
QueryHandle_ReadFails ==
    /\ pc = "run"
    /\ pc' = "fatal"
    /\ errorRx' = ERR_FATAL
    /\ rxLen' = -1
    /\ UNCHANGED << stateQuery, countError, timeoutInverterOnline,
                    solax_InverterOnline, solax_InverterSerialNumber, rxMessage,
                    liveData, txMessage, tty_tx, tty_rx, fault >>

\* the rest of the call after solax_ReceiveQuery returned error (not -1) on
\* the buffer buf; written says whether write() sends the whole frame
QueryHandle_Returns(buf, error, written) ==
    LET sw  == QuerySwitch(stateQuery, countError, timeoutInverterOnline,
                           ReceiveQuery_return(stateQuery, buf, error))
        on  == OnlineUpdate(solax_InverterOnline, sw.timeoutInverterOnline)
        ser == ReceiveQuery_serial(stateQuery, buf, error, solax_InverterSerialNumber)
        msg == SendQuery(sw.stateQuery, ser)
    IN  /\ liveData' = ReceiveQuery_liveData(stateQuery, buf, error)
        /\ solax_InverterSerialNumber' = ser
        /\ stateQuery' = sw.stateQuery
        /\ countError' = sw.countError
        /\ timeoutInverterOnline' = on.timeoutInverterOnline
        /\ solax_InverterOnline' = on.solax_InverterOnline
        /\ txMessage' = msg
        /\ IF written
           THEN /\ tty_tx' = solax_RS485_Send(msg)
                /\ errorRx' = ReceiveQuery_return(stateQuery, buf, error)
                /\ pc' = "run"
           ELSE /\ tty_tx' = << >>
                /\ errorRx' = ERR_FATAL
                /\ pc' = "fatal"

\* one call of solax_QueryHandle in which read() delivers bytes; writes is the
\* set of outcomes write() can have
QueryHandle_Read(bytes, writes) ==
    /\ pc = "run"
    /\ LET buf == ReadInto(rxMessage, bytes) IN
         /\ rxMessage' = buf
         /\ rxLen' = ReadLen(bytes)
         /\ UNCHANGED << tty_rx, fault >>
         /\ \E error \in ReceiveOfRead[bytes] :
              IF error = NO_RETURN
              THEN /\ pc' = "hung"
                   /\ UNCHANGED << stateQuery, countError, timeoutInverterOnline,
                                   solax_InverterOnline, solax_InverterSerialNumber,
                                   liveData, errorRx, txMessage, tty_tx >>
              ELSE \E written \in writes : QueryHandle_Returns(buf, error, written)

\* the daemon on a serial device whose read() and write() succeed
solax_QueryHandle ==
    /\ \E bytes \in RxInputs : QueryHandle_Read(bytes, { TRUE })
    /\ UNCHANGED << sinceLive, mainVars >>

Next == solax_QueryHandle

Spec == Init /\ [][Next]_vars

(***************************************************************************)
(* The daemon with the calls since the last decoded reply counted.  The    *)
(* inverter answers the live-data query, or not at all, or with a damaged  *)
(* frame.                                                                  *)
(***************************************************************************)
TickInputs == { << >>, rx_msg_3, rx_crc_damaged }

QueryHandle_Counted ==
    /\ \E bytes \in TickInputs : QueryHandle_Read(bytes, { TRUE })
    /\ sinceLive' = IF liveData'.valid THEN 0 ELSE Min(sinceLive + 1, TicksCap)
    /\ UNCHANGED mainVars

NextTicks == QueryHandle_Counted

SpecTicks == Init /\ [][NextTicks]_vars

(***************************************************************************)
(* solax_LiveData_Average(liveData, idx, max_idx)                          *)
(***************************************************************************)
\* a | b on uint32_t values
RECURSIVE BitOr(_, _)
BitOr(a, b) ==
    IF a = 0 THEN b
    ELSE IF b = 0 THEN a
    ELSE (IF a % 2 = 1 \/ b % 2 = 1 THEN 1 ELSE 0) + 2 * BitOr(a \div 2, b \div 2)

\* the body of the first loop behind "if (valid != true) continue": the
\* sample is added to the sums, or-ed into ErrorBits and raises the maxima
Accumulate(data, sample) ==
    [f \in DOMAIN data |->
        IF f \in SumFields THEN [num |-> data[f].num + sample[f], den |-> data[f].den]
        ELSE IF f = "ErrorBits" THEN BitOr(data[f], sample[f])
        ELSE IF f \in MaxFields THEN (IF data[f] < sample[f] THEN sample[f] ELSE data[f])
        ELSE data[f]]

\* faulty variant: the walk steps over an invalid slot and goes on behind it
AverageStep_WalksOn(hist, max_idx, st) ==
    IF hist[st.idx].valid # TRUE
    THEN [ data |-> st.data,
           idx  |-> IF st.idx # 0 THEN st.idx - 1 ELSE max_idx,
           cnt  |-> st.cnt ]
    ELSE [ data |-> Accumulate(st.data, hist[st.idx]),
           idx  |-> IF st.idx # 0 THEN st.idx - 1 ELSE max_idx,
           cnt  |-> U8(st.cnt + 1) ]

\* one iteration of the first loop on st = [data, idx, cnt]: an invalid slot
\* is skipped by continue with idx left where it is
AverageStep(hist, max_idx, st) ==
    IF hist[st.idx].valid # TRUE
    THEN st
    ELSE [ data |-> Accumulate(st.data, hist[st.idx]),
           idx  |-> IF st.idx # 0 THEN st.idx - 1 ELSE max_idx,
           cnt  |-> U8(st.cnt + 1) ]

\* for (i = 0; i <= arg_AV_Samples; i++) from iteration i on.  i is a uint8_t:
\* the loop ends only for arg_AV_Samples < 255, which the scripts keep to.
RECURSIVE AverageLoop(_, _, _, _, _)
AverageLoop(hist, max_idx, st, i, samples) ==
    IF i > samples
    THEN st
    ELSE AverageLoop(hist, max_idx, AverageStep(hist, max_idx, st), U8(i + 1), samples)

\* if (cnt) { ... /= cnt; }
AverageDivide(data, count) ==
    IF count # 0
    THEN [f \in DOMAIN data |->
            IF f \in SumFields THEN [num |-> data[f].num, den |-> count] ELSE data[f]]
    ELSE data

\* qos after the iterations idx = lo..hi of "qos += liveData[idx].valid" begun
\* at 0 (uint8_t addition is associative: the range is summed by halves)
RECURSIVE QosLoop(_, _, _)
QosLoop(hist, lo, hi) ==
    IF lo > hi THEN 0
    ELSE IF lo = hi THEN (IF hist[lo].valid THEN 1 ELSE 0)
    ELSE LET mid == (lo + hi) \div 2
         IN  U8(QosLoop(hist, lo, mid) + QosLoop(hist, mid + 1, hi))

\* faulty variant: the last slot is not counted (idx < max_idx)
AverageQos_OffByOne(hist, max_idx) ==
    [num |-> QosLoop(hist, 0, max_idx - 1), den |-> max_idx + 1]

\* for (idx = 0; idx <= max_idx; idx++) qos += ...; (float)qos / (max_idx + 1)
AverageQos(hist, max_idx) ==
    [num |-> QosLoop(hist, 0, max_idx), den |-> max_idx + 1]

\* solax_LiveData when the function has zeroed it, run its first loop and divided
AverageOf(hist, idx, max_idx, samples) ==
    LET st == AverageLoop(hist, max_idx, [data |-> ZeroAverage, idx |-> idx, cnt |-> 0],
                          0, samples)
    IN  AverageDivide(st.data, st.cnt)

(***************************************************************************)
(* main: the loop around solax_QueryHandle, solax_LiveData_Average and     *)
(* poll_HTTP_Server.  read(), write() and accept() can fail.               *)
(***************************************************************************)
arg_AV_Samples == script.samples

InitMain == InitDaemon /\ InitLoop /\ script \in Scripts

\* error = solax_QueryHandle(&liveData[index]); if (error == -1) return errno;
Main_QueryHandle ==
    /\ main_pc = "call"
    /\ ticks < MaxTicks
    /\ \/ QueryHandle_ReadFails
       \/ QueryHandle_Read(ScriptRead(script, ticks, stateQuery), { TRUE, FALSE })
    /\ main_liveData' =
         IF rxLen' >= 0 /\ pc' # "hung"
         THEN [main_liveData EXCEPT ![index] = liveData']
         ELSE main_liveData
    /\ writtenAt' =
         IF rxLen' >= 0 /\ pc' # "hung"
         THEN [writtenAt EXCEPT ![index] = ticks]
         ELSE writtenAt
    /\ main_pc' = IF pc' = "run" THEN "average" ELSE IF pc' = "hung" THEN "hung" ELSE "stopped"
    /\ validCount' = IF pc' = "run" /\ liveData'.valid THEN validCount + 1 ELSE validCount
    /\ httpResponse' = NoResponse
    /\ UNCHANGED << sinceLive, index, solax_LiveData, solax_QualityOfService, cnt,
                    ticks, lastPublished, script >>

daemonVars ==
    << stateQuery, countError, timeoutInverterOnline, solax_InverterOnline,
       solax_InverterSerialNumber, rxMessage, liveData, errorRx, txMessage,
       tty_tx, tty_rx, rxLen, fault, sinceLive, pc >>

\* faulty variant: the published sample is not zeroed before the sums
Average_Zero_KeepsOld ==
    /\ main_pc = "average"
    /\ cnt' = 0
    /\ main_pc' = "average_loop"
    /\ UNCHANGED << daemonVars, main_liveData, index, solax_LiveData,
                    solax_QualityOfService, httpResponse, ticks, validCount,
                    lastPublished, script,
                    writtenAt >>

\* solax_LiveData = (Solax_LiveData_t) {0}, with cnt = 0 and qos = 0
Average_Zero ==
    /\ main_pc = "average"
    /\ solax_LiveData' = ZeroAverage
    /\ cnt' = 0
    /\ main_pc' = "average_loop"
    /\ UNCHANGED << daemonVars, main_liveData, index, solax_QualityOfService,
                    httpResponse, ticks, validCount, lastPublished, script,
                    writtenAt >>

\* the first loop
Average_Loop ==
    /\ main_pc = "average_loop"
    /\ LET st == AverageLoop(main_liveData, MAX_INDEX_OF_LIVE_DATA,
                             [data |-> solax_LiveData, idx |-> index, cnt |-> cnt],
                             0, arg_AV_Samples)
       IN  /\ solax_LiveData' = st.data
           /\ cnt' = st.cnt
    /\ main_pc' = "average_divide"
    /\ UNCHANGED << daemonVars, main_liveData, index, solax_QualityOfService,
                    httpResponse, ticks, validCount, lastPublished, script,
                    writtenAt >>

\* if (cnt) { ... }
Average_Divide ==
    /\ main_pc = "average_divide"
    /\ solax_LiveData' = AverageDivide(solax_LiveData, cnt)
    /\ main_pc' = "average_qos"
    /\ UNCHANGED << daemonVars, main_liveData, index, solax_QualityOfService, cnt,
                    httpResponse, ticks, validCount, lastPublished, script,
                    writtenAt >>

\* the second loop and solax_QualityOfService = ...
Average_Qos ==
    /\ main_pc = "average_qos"
    /\ solax_QualityOfService' = AverageQos(main_liveData, MAX_INDEX_OF_LIVE_DATA)
    /\ main_pc' = "index"
    /\ UNCHANGED << daemonVars, main_liveData, index, solax_LiveData, cnt,
                    httpResponse, ticks, validCount, lastPublished, script,
                    writtenAt >>

\* faulty variant: the index wraps one slot early (index >= MAX_INDEX_OF_LIVE_DATA)
Main_Index_WrapsEarly ==
    /\ main_pc = "index"
    /\ index' = IF U8(index + 1) >= MAX_INDEX_OF_LIVE_DATA THEN 0 ELSE U8(index + 1)
    /\ main_pc' = "poll"
    /\ UNCHANGED << daemonVars, main_liveData, solax_LiveData, solax_QualityOfService,
                    cnt, httpResponse, ticks, validCount, lastPublished, script,
                    writtenAt >>

\* index++; if (index > MAX_INDEX_OF_LIVE_DATA) index = 0;
Main_Index ==
    /\ main_pc = "index"
    /\ index' = IF U8(index + 1) > MAX_INDEX_OF_LIVE_DATA THEN 0 ELSE U8(index + 1)
    /\ main_pc' = "poll"
    /\ UNCHANGED << daemonVars, main_liveData, solax_LiveData, solax_QualityOfService,
                    cnt, httpResponse, ticks, validCount, lastPublished, script,
                    writtenAt >>

\* poll_HTTP_Server returned 0: sleep(1) and the next pass of the loop
Main_NextPass ==
    /\ main_pc' = "call"
    /\ ticks' = ticks + 1
    /\ lastPublished' = [ Energy_Total  |-> solax_LiveData.Energy_Total,
                          Runtime_Total |-> solax_LiveData.Runtime_Total ]
    /\ UNCHANGED << daemonVars, main_liveData, index, solax_LiveData,
                    solax_QualityOfService, cnt, validCount, script,
                    writtenAt >>

\* faulty variant: the sample is printed as the average computation zeroed it
JsonPath_Zeroed == [ online |-> solax_InverterOnline,
                     quality_of_service |-> solax_QualityOfService,
                     data |-> ZeroAverage ]

\* what solax_JsonPath prints: the flag, the quality of service and the sample
JsonPath == [ online |-> solax_InverterOnline,
              quality_of_service |-> solax_QualityOfService,
              data |-> solax_LiveData ]

\* accept() finds no connection (EWOULDBLOCK)
Poll_NoClient ==
    /\ main_pc = "poll"
    /\ httpResponse' = NoResponse
    /\ Main_NextPass

\* accept() returns a connection: the response is written to it
Poll_Client ==
    /\ main_pc = "poll"
    /\ httpResponse' = << JsonPath >>
    /\ Main_NextPass

\* accept() fails otherwise: poll_HTTP_Server returns -1 and main returns
Poll_AcceptFails ==
    /\ main_pc = "poll"
    /\ main_pc' = "stopped"
    /\ UNCHANGED << daemonVars, main_liveData, index, solax_LiveData,
                    solax_QualityOfService, cnt, httpResponse, ticks, validCount,
                    lastPublished, script,
                    writtenAt >>

poll_HTTP_Server == Poll_NoClient \/ Poll_Client \/ Poll_AcceptFails

solax_LiveData_Average == Average_Zero \/ Average_Loop \/ Average_Divide \/ Average_Qos

NextMain ==
    \/ Main_QueryHandle
    \/ solax_LiveData_Average
    \/ Main_Index
    \/ poll_HTTP_Server

SpecMain == InitMain /\ [][NextMain]_vars

(***************************************************************************)
(* main's loop for ever, on a serial device and a socket that do not fail. *)
(* The line follows its script for up to MaxOutage passes; then, or        *)
(* earlier, the inverter starts to answer every query with the reply to    *)
(* it.  The history variables ticks and validCount count up to MaxOutage   *)
(* and MaxTicks only.                                                      *)
(***************************************************************************)
\* the scripts of the passes before the inverter answers every query: those
\* of the short periods whose reads without an answer are empty, short or
\* damaged
LiveScripts ==
    { s \in Scripts : s.period < 8 /\ s.silent \in { << >>, rx_short, rx_crc_damaged } }

\* the inverter answers every query
Responsive == script.answered = script.period

InitLive == InitDaemon /\ InitLoop /\ script \in LiveScripts

\* from this pass on every read delivers the reply to the query written before
Inverter_Responds ==
    /\ main_pc = "call"
    /\ ~Responsive
    /\ script' = [script EXCEPT !.mult = 1, !.period = 1, !.answered = 1]
    /\ UNCHANGED << daemonVars, main_liveData, index, solax_LiveData,
                    solax_QualityOfService, cnt, httpResponse, main_pc, ticks,
                    validCount, lastPublished, writtenAt >>

\* error = solax_QueryHandle(&liveData[index]) with a read() and a write()
\* that succeed
Live_QueryHandle ==
    /\ main_pc = "call"
    /\ Responsive \/ ticks < MaxOutage
    /\ QueryHandle_Read(ScriptRead(script, ticks, stateQuery), { TRUE })
    /\ main_liveData' =
         IF pc' # "hung"
         THEN [main_liveData EXCEPT ![index] = liveData']
         ELSE main_liveData
    /\ writtenAt' =
         IF pc' # "hung"
         THEN [writtenAt EXCEPT ![index] = ticks]
         ELSE writtenAt
    /\ main_pc' = IF pc' = "run" THEN "average" ELSE "hung"
    /\ validCount' =
         IF pc' = "run" /\ liveData'.valid
         THEN Min(validCount + 1, MaxTicks)
         ELSE validCount
    /\ httpResponse' = NoResponse
    /\ UNCHANGED << sinceLive, index, solax_LiveData, solax_QualityOfService, cnt,
                    ticks, lastPublished, script >>

\* poll_HTTP_Server returned 0: sleep(1) and the next pass of the loop
Live_NextPass ==
    /\ main_pc' = "call"
    /\ ticks' = Min(ticks + 1, MaxOutage)
    /\ lastPublished' = [ Energy_Total  |-> solax_LiveData.Energy_Total,
                          Runtime_Total |-> solax_LiveData.Runtime_Total ]
    /\ UNCHANGED << daemonVars, main_liveData, index, solax_LiveData,
                    solax_QualityOfService, cnt, validCount, script,
                    writtenAt >>

\* accept() finds no connection (EWOULDBLOCK)
Live_Poll_NoClient ==
    /\ main_pc = "poll"
    /\ httpResponse' = NoResponse
    /\ Live_NextPass

\* accept() returns a connection: the response is written to it
Live_Poll_Client ==
    /\ main_pc = "poll"
    /\ httpResponse' = << JsonPath >>
    /\ Live_NextPass

NextLive ==
    \/ Inverter_Responds
    \/ Live_QueryHandle
    \/ solax_LiveData_Average
    \/ Main_Index
    \/ Live_Poll_NoClient
    \/ Live_Poll_Client

\* main leaves the statement it stands at
Main_Advances ==
    /\ main_pc \notin { "hung", "stopped" }
    /\ main_pc' \in { "call", "average", "average_loop", "average_divide",
                      "average_qos", "index", "poll" }
    /\ main_pc' # main_pc

\* main is one thread and none of its calls blocks (read() and accept() return
\* at once, sleep(1) returns): it does not stand at a statement for ever.
\* Nothing but the bound MaxOutage makes the inverter answer.
SpecLive == InitLive /\ [][NextLive]_vars /\ WF_main_pc(Main_Advances)

(***************************************************************************)
(* The codec on a loop: a message is framed and written by                 *)
(* solax_RS485_Send, the serial line delivers the frame, possibly damaged, *)
(* and solax_RS485_Receive reads it.                                       *)
(***************************************************************************)
\* the largest payload that leaves room for the checksum in Data[100]
MaxDataLength == SizeofData - 2

Message(src, dst, cc, fc, data) ==
    [ Source |-> src, Destination |-> dst, ControlCode |-> cc, FunctionCode |-> fc,
      DataLength |-> Len(data), Data |-> data ]

\* a payload of n differing bytes, and one of n equal bytes
PatternData(n) == [i \in 1..n |-> (i * 37 + 11) % 256]
PlainData(n, b) == [i \in 1..n |-> b]

\* the fields and payload of the sample reply rx_msg_1
Message_rx_msg_1 ==
    Message(<< 0, 255 >>, << 1, 0 >>, 16, 128, SubSeq(rx_msg_1, 10, 23))

CodecMessages ==
    { Message(<< 1, 2 >>, << 3, 4 >>, 5, 6, PatternData(n)) : n \in 0..MaxDataLength }
      \cup { Message(<< 255, 0 >>, << 0, 255 >>, 255, 0, PlainData(n, b)) :
               n \in 1..MaxPlainLen, b \in { 0, 255 } }
      \cup { Message_rx_msg_1,
             Message(<< 0, 10 >>, << 0, 0 >>, 16, 129, << 6 >>),
             Message(<< 0, 10 >>, << 1, 0 >>, 17, 130, SubSeq(rx_msg_3, 10, 59)),
             Send_Broardcast, Send_QueryLiveData,
             Send_InverterAddress(SubSeq(rx_msg_1, 10, 23)) }

\* the declared payload length is replaced in the frames of these lengths
LengthFaultFrames == { 11, 25, 61, SizeofMessage }

\* the payload lengths of the frames in which the line inverts a bit
FlipLengths == (1..MaxFlipLen) \cup { 14, 15, 50, MaxDataLength }

\* b with bit k inverted
FlipBit(b, k) == IF (b \div Pow2(k)) % 2 = 1 THEN b - Pow2(k) ELSE b + Pow2(k)

InitCodec ==
    /\ stateQuery = STATE_QUERY_LIVE_DATA
    /\ timeoutInverterOnline = TIMEOUT_INVERTER_ONLINE
    /\ countError = 0
    /\ solax_InverterOnline = FALSE
    /\ solax_InverterSerialNumber = [i \in 1..14 |-> 0]
    /\ rxMessage = ZeroBuffer
    /\ liveData = ZeroLiveData
    /\ errorRx = ERR_NONE
    /\ txMessage \in CodecMessages
    /\ tty_tx = << >>
    /\ tty_rx = << >>
    /\ rxLen = 0
    /\ fault = NoFault
    /\ sinceLive = TicksCap
    /\ pc = "send"
    /\ InitLoop
    /\ script = NoScript

machineVars ==
    << stateQuery, countError, timeoutInverterOnline, solax_InverterOnline,
       solax_InverterSerialNumber, liveData, sinceLive, mainVars >>

\* solax_RS485_Send(&txMessage) with a write() that sends the whole frame
Codec_Send ==
    /\ pc = "send"
    /\ tty_tx' = solax_RS485_Send(txMessage)
    /\ pc' = "line"
    /\ UNCHANGED << machineVars, rxMessage, errorRx, txMessage, tty_rx, rxLen, fault >>

\* the line hands damaged (or not) to the receiving side
Line(damaged, what) ==
    /\ pc = "line"
    /\ tty_rx' = damaged
    /\ fault' = what
    /\ pc' = "receive"
    /\ UNCHANGED << machineVars, rxMessage, errorRx, txMessage, tty_tx, rxLen >>

Line_Deliver == Line(tty_tx, NoFault)

\* one bit of one payload byte is inverted
Line_FlipPayloadBit ==
    \E i \in 9..(Len(tty_tx) - 3), k \in 0..7 :
        /\ At(tty_tx, 8) \in FlipLengths
        /\ Line(WithByte(tty_tx, i, FlipBit(At(tty_tx, i), k)),
                [kind |-> "flip", pos |-> i, bit |-> k])

\* only the first n bytes arrive
Line_Truncate ==
    \E n \in 0..(Len(tty_tx) - 1) :
        Line(SubSeq(tty_tx, 1, n), [kind |-> "truncate", pos |-> n, bit |-> 0])

\* the bytes that can follow a frame in the same read: the start of a
\* following frame, zeros, or 0xFF bytes
TrailingBytes == { rx_msg_2, PlainData(12, 0), PlainData(12, 255) }

\* bytes arrive behind the frame in the same read
Line_Append ==
    \E n \in 1..MaxTrailing, more \in TrailingBytes :
        /\ Len(tty_tx) + n <= SizeofMessage
        /\ Line(tty_tx \o SubSeq(more, 1, n),
                [kind |-> "append", pos |-> n, bit |-> 0])

\* the DataLength byte arrives as another value
Line_Length ==
    \E L \in Byte :
        /\ Len(tty_tx) \in LengthFaultFrames
        /\ L # At(tty_tx, 8)
        /\ Line(WithByte(tty_tx, 8, L), [kind |-> "length", pos |-> L, bit |-> 0])

\* a marker byte arrives as another value
Line_Marker ==
    \E i \in 0..1 :
        Line(WithByte(tty_tx, i, 0), [kind |-> "marker", pos |-> i, bit |-> 0])

\* solax_RS485_Receive(&rxMessage) on the bytes waiting
Codec_Receive ==
    /\ pc = "receive"
    /\ rxMessage' = ReadInto(rxMessage, tty_rx)
    /\ rxLen' = ReadLen(tty_rx)
    /\ tty_rx' = << >>
    /\ \E error \in solax_RS485_Receive(rxMessage', rxLen') :
         IF error = NO_RETURN
         THEN pc' = "hung" /\ UNCHANGED errorRx
         ELSE pc' = "done" /\ errorRx' = error
    /\ UNCHANGED << machineVars, txMessage, tty_tx, fault >>

NextCodec ==
    \/ Codec_Send
    \/ Line_Deliver
    \/ Line_FlipPayloadBit
    \/ Line_Truncate
    \/ Line_Append
    \/ Line_Length
    \/ Line_Marker
    \/ Codec_Receive

SpecCodec == InitCodec /\ [][NextCodec]_vars

(***************************************************************************)
(* Claims on the query state machine                                       *)
(***************************************************************************)
\* the step is a call of solax_QueryHandle that classified its read as a failure
TickFailed == errorRx' # ERR_NONE
\* the step is a call whose read solax_RS485_Receive accepted (marker, length
\* and checksum are right)
TickWellFormed == errorRx' = ERR_NONE

\* C1: from AwaitingLiveData with error count 0 the first and the second
\* consecutive failed call leave the machine in AwaitingLiveData (count 1, 2)
\* and the third moves it to AwaitingBroadcast; from AwaitingBroadcast with
\* count 0 the first nine consecutive failed calls leave it there (count 1..9)
\* and the tenth moves it to AwaitingLiveData, never to AwaitingAddressConfirm;
\* the count is 0 after each move.
C1_ThresholdMoves ==
    [][ TickFailed =>
          /\ (stateQuery = STATE_QUERY_LIVE_DATA /\ countError < 2)
               => (stateQuery' = STATE_QUERY_LIVE_DATA /\ countError' = countError + 1)
          /\ (stateQuery = STATE_QUERY_LIVE_DATA /\ countError = 2)
               => (stateQuery' = STATE_BROARDCAST /\ countError' = 0)
          /\ (stateQuery = STATE_BROARDCAST /\ countError < 9)
               => (stateQuery' = STATE_BROARDCAST /\ countError' = countError + 1)
          /\ (stateQuery = STATE_BROARDCAST /\ countError = 9)
               => (stateQuery' = STATE_QUERY_LIVE_DATA /\ countError' = 0)
          /\ (stateQuery = STATE_BROARDCAST)
               => (stateQuery' # STATE_INVERTER_ADDRESS)
      ]_vars

\* C1 witness: the machine is back in AwaitingLiveData with count 0 after a
\* failed call, which only the tenth failure in AwaitingBroadcast produces
\* (and AwaitingBroadcast is entered from AwaitingLiveData by the third failure)
C1_Witness ==
    /\ stateQuery = STATE_QUERY_LIVE_DATA
    /\ countError = 0
    /\ errorRx # ERR_NONE
    /\ pc = "run"

\* the control code, function code (and confirmation byte) of the frame in
\* buf are the ones the state expects
CodesExpected(state, buf) ==
    CASE state = STATE_BROARDCAST ->
           ControlCode(buf) = 16 /\ FunctionCode(buf) = 128
      [] state = STATE_INVERTER_ADDRESS ->
           ControlCode(buf) = 16 /\ FunctionCode(buf) = 129 /\ Data(buf, 0) = 6
      [] state = STATE_QUERY_LIVE_DATA ->
           ControlCode(buf) = 17 /\ FunctionCode(buf) = 130

\* C2: a call whose frame has a correct marker, length and checksum but not
\* the codes its state expects is a failure: the error count goes up by one
\* (or the threshold move is taken, with count 0), the state does not advance
\* and the online-timeout counter is not reset.
C2_WrongCodesFail ==
    [][ (TickWellFormed /\ ~CodesExpected(stateQuery, rxMessage'))
          => /\ \/ (stateQuery' = stateQuery /\ countError' = countError + 1)
                \/ (stateQuery' = FallbackState(stateQuery) /\ countError' = 0)
             /\ timeoutInverterOnline' # 0
      ]_vars

\* C3: a successful call resets the error count to 0 in every state.
C3_SuccessResetsCount ==
    [][ (errorRx' = ERR_NONE) => (countError' = 0) ]_vars

C5_OfflineAtThirtieth ==
    IF sinceLive < TIMEOUT_INVERTER_ONLINE
    THEN solax_InverterOnline
    ELSE ~solax_InverterOnline

\* C6: the flag turns from false to true only in a call that started in
\* AwaitingLiveData and produced a sample with valid = true.
C6_OnlineOnlyOnValidSample ==
    [][ (~solax_InverterOnline /\ solax_InverterOnline')
          => (stateQuery = STATE_QUERY_LIVE_DATA /\ liveData'.valid) ]_vars

(***************************************************************************)
(* Claims on the frame codec                                               *)
(***************************************************************************)
\* the bytes the last read stored
Received == SubSeq(rxMessage, 1, rxLen)

\* the plain sum of the bytes of s
RECURSIVE ByteSum(_)
ByteSum(s) ==
    IF Len(s) = 0 THEN 0
    ELSE IF Len(s) = 1 THEN s[1]
    ELSE LET h == Len(s) \div 2
         IN  ByteSum(SubSeq(s, 1, h)) + ByteSum(SubSeq(s, h + 1, Len(s)))

\* the classification of a read as C7 words it, L being the ninth byte
ClaimedResult(bytes) ==
    IF Len(bytes) = 0 THEN ERR_NO_DATA
    ELSE IF Len(bytes) < 11 \/ bytes[1] # 170 \/ bytes[2] # 85 THEN ERR_INVALID_MSG
    ELSE LET L == bytes[9] IN
         IF 9 + L + 2 > Len(bytes) THEN ERR_INVALID_MSG
         ELSE LET sum == ByteSum(SubSeq(bytes, 1, 9 + L)) % 65536 IN
              IF bytes[9 + L + 1] = sum \div 256 /\ bytes[9 + L + 2] = sum % 256
              THEN ERR_NONE
              ELSE ERR_CRC_ERROR

\* C7: solax_RS485_Receive classifies every read in this order: empty gives
\* NoData; fewer than 11 bytes or a wrong marker gives Malformed; for every
\* declared payload length L in 0..255, 9 + L + 2 above the number of bytes
\* read gives Malformed; otherwise ChecksumMismatch if the two bytes after the
\* payload differ from the recomputed sum and success if they match.
C7_ReceiveClassification ==
    pc \in { "done", "hung" } =>
        /\ pc = "done"
        /\ errorRx = ClaimedResult(Received)

\* C8: every frame with a payload of 0..98 bytes that solax_RS485_Send writes
\* is accepted by solax_RS485_Receive when the written bytes are read
\* unchanged, the received source, destination, control code, function code,
\* payload length and payload are the ones sent, and 9 + payload length + 2
\* bytes were written.
C8_RoundTrip ==
    (pc \in { "done", "hung" } /\ fault.kind = "none") =>
        /\ pc = "done"
        /\ errorRx = ERR_NONE
        /\ Source(rxMessage) = txMessage.Source
        /\ Destination(rxMessage) = txMessage.Destination
        /\ ControlCode(rxMessage) = txMessage.ControlCode
        /\ FunctionCode(rxMessage) = txMessage.FunctionCode
        /\ DataLength(rxMessage) = txMessage.DataLength
        /\ \A i \in 1..txMessage.DataLength :
              Data(rxMessage, i - 1) = txMessage.Data[i]
        /\ Len(tty_tx) = 9 + txMessage.DataLength + 2
        /\ rxLen = Len(tty_tx)

\* C8 witness: the longest frame (98 payload bytes) went round and was accepted
C8_Witness ==
    /\ pc = "done"
    /\ fault.kind = "none"
    /\ txMessage.DataLength = MaxDataLength
    /\ rxLen = SizeofMessage
    /\ errorRx = ERR_NONE

\* C9: a written frame read with one bit of one payload byte inverted is
\* answered with ChecksumMismatch, never with success.
C9_PayloadBitFlip ==
    (pc \in { "done", "hung" } /\ fault.kind = "flip") =>
        /\ pc = "done"
        /\ errorRx = ERR_CRC_ERROR

\* C9 witness: the top bit of the last payload byte of the longest frame was
\* inverted and the read was answered with ChecksumMismatch
C9_Witness ==
    /\ pc = "done"
    /\ fault.kind = "flip"
    /\ fault.bit = 7
    /\ fault.pos = 9 + MaxDataLength - 1
    /\ errorRx = ERR_CRC_ERROR

\* C10: the two bytes that end a written frame are the sum of all bytes from
\* the marker through the last payload byte modulo 65536, high byte first; for
\* the 23 bytes of rx_msg_1 before its checksum the sum is 0x0575, the bytes
\* 0x05 0x75 that end rx_msg_1.
C10_Checksum ==
    /\ pc # "send" =>
          LET n   == Len(tty_tx) - 2
              sum == ByteSum(SubSeq(tty_tx, 1, n)) % 65536
          IN  /\ tty_tx[n + 1] = sum \div 256
              /\ tty_tx[n + 2] = sum % 256
    /\ (pc # "send" /\ txMessage = Message_rx_msg_1) =>
          /\ tty_tx = rx_msg_1
          /\ SubSeq(tty_tx, 24, 25) = << 5, 117 >>
          /\ solax_CalculateCRC(tty_tx, 22) = 5 * 256 + 117

\* C10 witness: the frame with the fields and payload of rx_msg_1 was written
\* and read back
C10_Witness ==
    /\ pc = "done"
    /\ txMessage = Message_rx_msg_1
    /\ tty_tx = rx_msg_1
    /\ errorRx = ERR_NONE

(***************************************************************************)
(* Claims on the decoded sample, the history and the published snapshot    *)
(***************************************************************************)
\* C11 as stated: the call that reads rx_msg_3 in AwaitingLiveData yields a
\* valid sample with Temperature 50, Energy_Today 1.1 (11 tenths) and Power 487.
C11_SampleAsStated ==
    [][ (stateQuery = STATE_QUERY_LIVE_DATA /\ Received' = rx_msg_3 /\ pc' = "run")
          => /\ liveData'.valid
             /\ liveData'.Temperature = 50
             /\ liveData'.Energy_Today = 11
             /\ liveData'.Power = 487
      ]_vars

\* C11 amended: the call that reads rx_msg_3 in AwaitingLiveData yields a
\* valid sample with Temperature 11 (Data[0..1] = 0x000B), Energy_Today 0.1
\* (Data[2..3] = 0x0001, one tenth) and Power 487 (Data[18..19] = 0x01E7).
C11_SampleOfRxMsg3 ==
    [][ (stateQuery = STATE_QUERY_LIVE_DATA /\ Received' = rx_msg_3 /\ pc' = "run")
          => /\ liveData'.valid
             /\ liveData'.Temperature = 11
             /\ liveData'.Energy_Today = 1
             /\ liveData'.Power = 487
      ]_vars

\* C11 witness: rx_msg_3 was read and decoded into a valid sample
C11_Witness ==
    /\ pc = "run"
    /\ Received = rx_msg_3
    /\ liveData.valid
    /\ liveData.Power = 487

\* a pass of main's loop has run to the end of solax_LiveData_Average
AverageDone ==
    \/ main_pc \in { "index", "poll" }
    \/ main_pc = "call" /\ ticks > 0

\* the passes of the loop that have run to the end of solax_LiveData_Average
PassesAveraged == IF main_pc \in { "index", "poll" } THEN ticks + 1 ELSE ticks

\* the history slots whose valid flag is true
ValidSlots == { i \in 0..(QUALITY_OF_SERVICE_COUNT - 1) : main_liveData[i].valid }

\* C12: after every pass the quality of service is (number of history slots
\* with valid = true) / 100, counted over all 100 slots whatever the index
\* and the averaging window; after 100 passes of which exactly 37 gave a
\* valid sample it is 0.37; it always lies in 0.0..1.0.
C12_QualityOfService ==
    AverageDone =>
        /\ solax_QualityOfService.num * 100
             = Cardinality(ValidSlots) * solax_QualityOfService.den
        /\ solax_QualityOfService.num >= 0
        /\ solax_QualityOfService.num <= solax_QualityOfService.den
        /\ (PassesAveraged = 100 /\ validCount = 37)
             => solax_QualityOfService.num * 100 = 37 * solax_QualityOfService.den

\* C12 witness: the 100th pass has been averaged, 37 of the passes gave a
\* valid sample, and the quality of service is 37 / 100
C12_Witness ==
    /\ main_pc = "poll"
    /\ ticks = 99
    /\ validCount = 37
    /\ solax_QualityOfService = [num |-> 37, den |-> 100]

\* C13: when a live-data reply with a nonzero raw Energy_Total has been
\* decoded, a later decoded reply whose raw Energy_Total is 0 yields a sample
\* whose Energy_Total is the value captured before, not 0 (and the same for
\* Runtime_Total).  Stated for a decode that directly follows the capture.
C13_ZeroKeepsCaptured ==
    [][ (/\ main_pc = "call" /\ pc' = "run"
         /\ liveData.valid /\ liveData.Energy_Total # 0 /\ liveData.Runtime_Total # 0
         /\ liveData'.valid
         /\ Long(rxMessage', 22) = 0 /\ Long(rxMessage', 26) = 0)
          => /\ liveData'.Energy_Total = liveData.Energy_Total
             /\ liveData'.Runtime_Total = liveData.Runtime_Total
      ]_vars

\* C14: the Energy_Total and Runtime_Total of the published averaged sample
\* do not decrease from one pass to the next because the new pass had no
\* valid reading or a zero raw reading: after such a pass they are at least
\* what the pass before published.
C14_LifetimeNeverDecreases ==
    (/\ main_pc = "poll"
     /\ \/ ~liveData.valid
        \/ Long(rxMessage, 22) = 0
        \/ Long(rxMessage, 26) = 0)
      => /\ solax_LiveData.Energy_Total >= lastPublished.Energy_Total
         /\ solax_LiveData.Runtime_Total >= lastPublished.Runtime_Total

\* C15: bytes appended behind a complete valid frame do not change the
\* result of solax_RS485_Receive: the frame is accepted and the received
\* source, destination, codes, payload length and payload are those of the
\* frame without the trailing bytes.
C15_TrailingBytesIgnored ==
    (pc \in { "done", "hung" } /\ fault.kind = "append") =>
        /\ pc = "done"
        /\ errorRx = ERR_NONE
        /\ rxLen = Len(tty_tx) + fault.pos
        /\ Source(rxMessage) = txMessage.Source
        /\ Destination(rxMessage) = txMessage.Destination
        /\ ControlCode(rxMessage) = txMessage.ControlCode
        /\ FunctionCode(rxMessage) = txMessage.FunctionCode
        /\ DataLength(rxMessage) = txMessage.DataLength
        /\ \A i \in 1..txMessage.DataLength :
              Data(rxMessage, i - 1) = txMessage.Data[i]

\* C15 witness: a frame was read with more than one byte behind it and accepted
C15_Witness ==
    /\ pc = "done"
    /\ fault.kind = "append"
    /\ fault.pos > 1
    /\ rxLen = Len(tty_tx) + fault.pos
    /\ errorRx = ERR_NONE

\* C16: a pass whose read() fails returns the fatal result with the query
\* state, the error count, the online-timeout counter, the online flag, the
\* captured serial, the history and the published snapshot unchanged and with
\* no frame written, and main leaves the loop; a pass whose write() fails
\* makes main leave the loop as well; after either no further pass is made.
C16_TransportFailureFatal ==
    [][ /\ (main_pc = "call" /\ rxLen' < 0)
          => /\ errorRx' = ERR_FATAL
             /\ main_pc' = "stopped"
             /\ UNCHANGED << stateQuery, countError, timeoutInverterOnline,
                             solax_InverterOnline, solax_InverterSerialNumber,
                             main_liveData, index, solax_LiveData,
                             solax_QualityOfService, txMessage, tty_tx >>
        /\ (main_pc = "call" /\ rxLen' >= 0 /\ pc' = "fatal")
          => /\ errorRx' = ERR_FATAL
             /\ main_pc' = "stopped"
        /\ main_pc # "stopped"
      ]_vars

\* C16 witness: read() failed in a pass made while the inverter was online,
\* and main has left the loop
C16_Witness ==
    /\ main_pc = "stopped"
    /\ errorRx = ERR_FATAL
    /\ rxLen < 0
    /\ solax_InverterOnline
    /\ ticks > 1

\* the pass classified its read as NoData, Malformed or ChecksumMismatch
PassFailed == errorRx' \in { ERR_NO_DATA, ERR_INVALID_MSG, ERR_CRC_ERROR }

\* C17: NoData, Malformed and ChecksumMismatch are not fatal in any state: the
\* pass raises the error count of its state by exactly one (or, on reaching
\* the threshold of the state, 10 in AwaitingBroadcast and 3 in the others,
\* sets it to 0 and takes the threshold move), writes an invalid sample to
\* the history slot of the pass, writes the query of the state it ends in,
\* and main's loop goes on.
C17_FailuresNotFatal ==
    [][ (main_pc = "call" /\ PassFailed)
          => /\ \/ /\ stateQuery' = stateQuery
                   /\ countError' = countError + 1
                   /\ countError' < (IF stateQuery = STATE_BROARDCAST THEN 10 ELSE 3)
                \/ /\ stateQuery' = (IF stateQuery = STATE_BROARDCAST
                                     THEN STATE_QUERY_LIVE_DATA ELSE STATE_BROARDCAST)
                   /\ countError + 1 = (IF stateQuery = STATE_BROARDCAST THEN 10 ELSE 3)
                   /\ countError' = 0
             /\ main_liveData'[index] = ZeroLiveData
             /\ \A i \in 0..MAX_INDEX_OF_LIVE_DATA :
                  i # index => main_liveData'[i] = main_liveData[i]
             /\ txMessage' = SendQuery(stateQuery', solax_InverterSerialNumber')
             /\ tty_tx' = solax_RS485_Send(txMessage')
             /\ main_pc' = "average"
      ]_vars

\* C17 witness: a pass in AwaitingAddressConfirm ended with ChecksumMismatch
\* as the second failure there, behind passes that had decoded a sample, and
\* the loop is going on
C17_Witness ==
    /\ main_pc = "average"
    /\ stateQuery = STATE_INVERTER_ADDRESS
    /\ countError = 2
    /\ errorRx = ERR_CRC_ERROR
    /\ validCount > 0

\* C18: every pass of main's loop terminates: whatever bytes the read
\* delivers (any length up to the receive buffer, any declared payload length
\* 0..255), the receive, checksum, transition, transmit and aggregate steps
\* come to an end, so no pass stays inside a call for ever.
C18_EveryPassTerminates ==
    /\ pc # "hung"
    /\ main_pc # "hung"

\* the index main passed to solax_LiveData_Average in the pass that has just
\* advanced index
IndexAveraged == IF index = 0 THEN MAX_INDEX_OF_LIVE_DATA ELSE index - 1

\* C19: the HTTP responder never sees a partly updated snapshot: a response
\* is written only when the pass has finished its average, and the online
\* flag, the quality of service and the averaged sample in it are the fully
\* computed values of that pass, never the zeroed or partly summed
\* intermediate values.
C19_SnapshotWhole ==
    [][ (httpResponse' # NoResponse)
          => /\ main_pc = "poll"
             /\ httpResponse'[1].online = solax_InverterOnline
             /\ httpResponse'[1].quality_of_service =
                  [num |-> Cardinality(ValidSlots), den |-> QUALITY_OF_SERVICE_COUNT]
             /\ httpResponse'[1].data =
                  AverageOf(main_liveData, IndexAveraged, MAX_INDEX_OF_LIVE_DATA,
                            arg_AV_Samples)
      ]_vars

\* C19 witness: a response was written while the inverter was online, with a
\* sample averaged over more than one pass
C19_Witness ==
    /\ httpResponse # NoResponse
    /\ httpResponse[1].online
    /\ httpResponse[1].data.Power.num > 0
    /\ httpResponse[1].data.Power.den > 1
    /\ httpResponse[1].quality_of_service.num > 1

\* the step is a call that got the reply its state expects
TickSucceeded == errorRx' = ERR_NONE /\ CodesExpected(stateQuery, rxMessage')

\* C20: discovery transitions.  In AwaitingBroadcast a successful call resets
\* the error count, captures the 14-byte serial from the reply payload and
\* moves to AwaitingAddressConfirm; in AwaitingAddressConfirm a successful
\* call resets the count and moves to AwaitingLiveData, a failed call below
\* the threshold stays there and the third consecutive failure resets the
\* count and moves to AwaitingBroadcast; AwaitingAddressConfirm is entered only
\* from AwaitingBroadcast, and only by a successful call.
C20_DiscoveryTransitions ==
    [][ (pc' = "run") =>
          /\ (stateQuery = STATE_BROARDCAST /\ TickSucceeded)
               => /\ countError' = 0
                  /\ stateQuery' = STATE_INVERTER_ADDRESS
                  /\ solax_InverterSerialNumber' = [i \in 1..14 |-> Data(rxMessage', i - 1)]
          /\ (stateQuery = STATE_INVERTER_ADDRESS /\ TickSucceeded)
               => (countError' = 0 /\ stateQuery' = STATE_QUERY_LIVE_DATA)
          /\ (stateQuery = STATE_INVERTER_ADDRESS /\ ~TickSucceeded /\ countError < 2)
               => (countError' = countError + 1 /\ stateQuery' = STATE_INVERTER_ADDRESS)
          /\ (stateQuery = STATE_INVERTER_ADDRESS /\ ~TickSucceeded /\ countError = 2)
               => (countError' = 0 /\ stateQuery' = STATE_BROARDCAST)
          /\ (stateQuery # STATE_INVERTER_ADDRESS /\ stateQuery' = STATE_INVERTER_ADDRESS)
               => (stateQuery = STATE_BROARDCAST /\ TickSucceeded)
      ]_vars

(***************************************************************************)
(* Claims on the queries the daemon transmits                              *)
(***************************************************************************)
\* the state whose query the written bytes are, by their control and function code
QueryOf(bytes) ==
    IF Len(bytes) < 11 THEN "none"
    ELSE CASE ControlCode(bytes) = 16 /\ FunctionCode(bytes) = 0 -> STATE_BROARDCAST
           [] ControlCode(bytes) = 16 /\ FunctionCode(bytes) = 1 -> STATE_INVERTER_ADDRESS
           [] ControlCode(bytes) = 17 /\ FunctionCode(bytes) = 2 -> STATE_QUERY_LIVE_DATA
           [] OTHER -> "none"

\* C21: in every call that is not fatal one frame is written, after the
\* receive and the state update, and it is the query of the state held after
\* the update; so in every call after the first the reply the machine expects
\* is the one to the query it wrote in the call before.
C21_QueryOfNewState ==
    [][ (main_pc = "call" /\ pc' = "run")
          => /\ Len(tty_tx') = DataLength(tty_tx') + 11
             /\ QueryOf(tty_tx') = stateQuery'
             /\ (ticks > 0) => (QueryOf(tty_tx) = stateQuery)
      ]_vars

\* C21 witness: a call has moved the machine to AwaitingAddressConfirm and
\* written the address-assignment frame
C21_Witness ==
    /\ main_pc = "average"
    /\ pc = "run"
    /\ stateQuery = STATE_INVERTER_ADDRESS
    /\ QueryOf(tty_tx) = STATE_INVERTER_ADDRESS
    /\ ticks > 0

\* solax_InverterSerialNumber before any broadcast reply was received
InitialSerial == [i \in 1..14 |-> 0]

\* C22: whenever an address-assignment frame is written its 15-byte payload
\* is the 14-byte serial captured from the most recent valid broadcast reply
\* (the serial changes only by such a reply, to the first 14 payload bytes of
\* it), followed by the configured bus address, and it is never built from
\* the initial empty serial.
C22_AddressFromCapturedSerial ==
    [][ (pc' = "run") =>
          /\ (solax_InverterSerialNumber' # solax_InverterSerialNumber
                \/ (stateQuery = STATE_BROARDCAST /\ TickSucceeded))
               => /\ stateQuery = STATE_BROARDCAST
                  /\ TickSucceeded
                  /\ solax_InverterSerialNumber' = [i \in 1..14 |-> Data(rxMessage', i - 1)]
          /\ (QueryOf(tty_tx') = STATE_INVERTER_ADDRESS)
               => /\ DataLength(tty_tx') = 15
                  /\ [i \in 1..14 |-> Data(tty_tx', i - 1)] = solax_InverterSerialNumber'
                  /\ Data(tty_tx', 14) = arg_InverterAddr
                  /\ solax_InverterSerialNumber' # InitialSerial
      ]_vars

\* a query has been written and the machine waits for the reply in state
Transmitted(state) == pc = "run" /\ tty_tx # << >> /\ stateQuery = state

\* the live-data query: control 0x11, function 0x02, the low byte of the
\* destination is the configured bus address, no payload
LiveQueryAsStated ==
    Transmitted(STATE_QUERY_LIVE_DATA)
      => /\ ControlCode(tty_tx) = 17
         /\ FunctionCode(tty_tx) = 2
         /\ Destination(tty_tx)[2] = arg_InverterAddr
         /\ DataLength(tty_tx) = 0
         /\ Len(tty_tx) = 11

\* C23 as stated: the broadcast query written in AwaitingBroadcast has source
\* address 0x0000 and destination address 0x0000, control code 0x10, function
\* code 0x00 and payload length 0; the live-data query is as in
\* LiveQueryAsStated.
C23_QueriesAsStated ==
    /\ Transmitted(STATE_BROARDCAST)
         => /\ Source(tty_tx) = << 0, 0 >>
            /\ Destination(tty_tx) = << 0, 0 >>
            /\ ControlCode(tty_tx) = 16
            /\ FunctionCode(tty_tx) = 0
            /\ DataLength(tty_tx) = 0
            /\ Len(tty_tx) = 11
    /\ LiveQueryAsStated

\* C23 amended: the broadcast query has the source bytes 01 00 (source
\* address 0x0100) and destination address 0x0000, control code 0x10,
\* function code 0x00 and payload length 0; the live-data query is as stated.
C23_QueriesSent ==
    /\ Transmitted(STATE_BROARDCAST)
         => /\ Source(tty_tx) = << 1, 0 >>
            /\ Destination(tty_tx) = << 0, 0 >>
            /\ ControlCode(tty_tx) = 16
            /\ FunctionCode(tty_tx) = 0
            /\ DataLength(tty_tx) = 0
            /\ Len(tty_tx) = 11
    /\ LiveQueryAsStated

\* C23 witness: the broadcast query has been written again after a call in
\* AwaitingBroadcast that failed
C23_Witness ==
    /\ Transmitted(STATE_BROARDCAST)
    /\ Source(tty_tx) = << 1, 0 >>
    /\ countError > 0

(***************************************************************************)
(* Claims on the average and the history                                   *)
(***************************************************************************)
\* the index the last completed solax_LiveData_Average was called with
AveragedAt == IF main_pc = "index" THEN index ELSE IndexAveraged

\* the slot j steps behind idx, walking backward and wrapping from 0 to 99
WalkSlot(idx, j) ==
    (idx + QUALITY_OF_SERVICE_COUNT - j) % QUALITY_OF_SERVICE_COUNT

\* the length of the run of consecutive valid slots that ends at idx
RunLength(hist, idx) ==
    CHOOSE k \in 0..QUALITY_OF_SERVICE_COUNT :
        /\ \A j \in 0..(k - 1) : hist[WalkSlot(idx, j)].valid
        /\ (k = QUALITY_OF_SERVICE_COUNT) \/ ~hist[WalkSlot(idx, k)].valid

\* the sum of field f over the slots lo..hi steps behind idx
RECURSIVE WalkSum(_, _, _, _, _)
WalkSum(hist, idx, f, lo, hi) ==
    IF lo > hi THEN 0
    ELSE IF lo = hi THEN hist[WalkSlot(idx, lo)][f]
    ELSE LET mid == (lo + hi) \div 2
         IN  WalkSum(hist, idx, f, lo, mid) + WalkSum(hist, idx, f, mid + 1, hi)

\* C24: with the window W (0 <= W < 100) the number of samples that enter
\* the average is min(W + 1, r), r being the length of the run of consecutive
\* valid slots that ends at the current index walking backward (wrapping from
\* slot 0 to slot 99); valid slots behind the first invalid slot of the walk
\* are not included, and every summed field is the sum over exactly those
\* samples divided by their number.
C24_WindowedAverage ==
    AverageDone =>
        LET n == Min(arg_AV_Samples + 1, RunLength(main_liveData, AveragedAt))
        IN  /\ cnt = n
            /\ \A f \in SumFields :
                 solax_LiveData[f] =
                   IF n = 0 THEN [num |-> 0, den |-> 1]
                   ELSE [num |-> WalkSum(main_liveData, AveragedAt, f, 0, n - 1),
                         den |-> n]

\* C24 witness: the average was taken over a run shorter than the window,
\* with a valid slot inside the window behind the invalid slot that ended the run
C24_Witness ==
    /\ main_pc = "index"
    /\ cnt >= 2
    /\ cnt < arg_AV_Samples
    /\ solax_LiveData.Power.num > 0
    /\ \E j \in (cnt + 1)..arg_AV_Samples : main_liveData[WalkSlot(index, j)].valid

\* C25: if the sample written in the current pass is invalid, every field of
\* the published averaged sample is zero after that pass: the summed fields,
\* the maximum fields Energy_Today, Energy_Total, Runtime_Total and Status,
\* and ErrorBits, whatever valid samples the older slots hold.
C25_InvalidSampleZeroesAverage ==
    (AverageDone /\ ~main_liveData[AveragedAt].valid)
      => /\ \A f \in SumFields : solax_LiveData[f].num = 0
         /\ solax_LiveData.Energy_Today = 0
         /\ solax_LiveData.Energy_Total = 0
         /\ solax_LiveData.Runtime_Total = 0
         /\ solax_LiveData.Status = 0
         /\ solax_LiveData.ErrorBits = 0
         /\ cnt = 0

\* C25 witness: the pass wrote an invalid sample behind a valid one, the pass
\* before had published nonzero values, and the average is all zero
C25_Witness ==
    /\ main_pc = "index"
    /\ ~main_liveData[index].valid
    /\ main_liveData[WalkSlot(index, 1)].valid
    /\ lastPublished.Energy_Total > 0
    /\ solax_LiveData = ZeroAverage

\* C26: the history is a ring.  The write index is always in 0..99; pass k
\* (k = 0, 1, 2, ...) writes its sample, valid or not, to slot k mod 100 and
\* to no other slot, then the index advances by one and wraps from 99 to 0;
\* so after 100 or more passes the slots hold exactly the samples of the last
\* 100 passes.
C26_HistoryRing ==
    [][ /\ index' \in 0..(QUALITY_OF_SERVICE_COUNT - 1)
        /\ (main_pc = "call" /\ pc' = "run")
             => /\ index = ticks % QUALITY_OF_SERVICE_COUNT
                /\ main_liveData'[index] = liveData'
                /\ \A i \in 0..(QUALITY_OF_SERVICE_COUNT - 1) :
                     i # index => main_liveData'[i] = main_liveData[i]
        /\ (main_pc # "call") => (main_liveData' = main_liveData)
        /\ (main_pc = "index")
             => index' = (IF index = QUALITY_OF_SERVICE_COUNT - 1 THEN 0 ELSE index + 1)
        /\ (main_pc # "index") => (index' = index)
        /\ (main_pc = "index" /\ ticks + 1 >= QUALITY_OF_SERVICE_COUNT)
             => \A i \in 0..(QUALITY_OF_SERVICE_COUNT - 1) :
                  /\ writtenAt[i] > ticks - QUALITY_OF_SERVICE_COUNT
                  /\ writtenAt[i] <= ticks
                  /\ writtenAt[i] % QUALITY_OF_SERVICE_COUNT = i
      ]_vars

\* C26 witness: the index has wrapped, the slots 0..2 hold the samples of the
\* passes 100..102 and the slots 3 and 99 those of the passes 3 and 99, and
\* there are valid and invalid samples in the history
C26_Witness ==
    /\ main_pc = "poll"
    /\ ticks = 102
    /\ index = 3
    /\ writtenAt[0] = 100
    /\ writtenAt[2] = 102
    /\ writtenAt[3] = 3
    /\ writtenAt[99] = 99
    /\ Cardinality(ValidSlots) \in 1..(QUALITY_OF_SERVICE_COUNT - 1)

\* C27: every history slot whose valid flag is false has all its other
\* fields zero, and a slot gets valid = true only from a pass that started in
\* AwaitingLiveData and read a checksum-valid frame (marker, declared length
\* within the bytes read, checksum over them) with control code 0x11 and
\* function code 0x82.
C27_ValidOnlyFromLiveReply ==
    [][ /\ \A i \in 0..(QUALITY_OF_SERVICE_COUNT - 1) :
             ~main_liveData'[i].valid => main_liveData'[i] = ZeroLiveData
        /\ \A i \in 0..(QUALITY_OF_SERVICE_COUNT - 1) :
             (main_liveData'[i].valid /\ main_liveData'[i] # main_liveData[i])
               => /\ main_pc = "call"
                  /\ i = index
                  /\ stateQuery = STATE_QUERY_LIVE_DATA
                  /\ ClaimedResult(Received') = ERR_NONE
                  /\ ControlCode(rxMessage') = 17
                  /\ FunctionCode(rxMessage') = 130
      ]_vars

(***************************************************************************)
(* Claims on the counters of solax_QueryHandle                             *)
(***************************************************************************)
\* the inverter never answers: every read delivers nothing
NeverAnswered == script # NoScript /\ script.answered = 0 /\ script.silent = << >>

\* the calls of solax_QueryHandle that have returned normally
CallsReturned == IF main_pc = "call" THEN ticks ELSE ticks + 1

\* read() and write() have not failed
Running == pc = "run" /\ main_pc # "stopped"

\* C28: with an inverter that never answers the machine, started in
\* AwaitingLiveData, cycles with a period of 13 calls: 3 calls in
\* AwaitingLiveData, 10 calls in AwaitingBroadcast, then AwaitingLiveData
\* again (with the error count 0 at each change); it never enters
\* AwaitingAddressConfirm, the online flag stays false and the quality of
\* service stays 0.
C28_SilentInverterCycle ==
    (NeverAnswered /\ Running) =>
        LET phase == CallsReturned % 13
        IN  /\ (phase < 3) => (stateQuery = STATE_QUERY_LIVE_DATA /\ countError = phase)
            /\ (phase >= 3) => (stateQuery = STATE_BROARDCAST /\ countError = phase - 3)
            /\ ~solax_InverterOnline
            /\ timeoutInverterOnline = TIMEOUT_INVERTER_ONLINE
            /\ solax_QualityOfService.num = 0
            /\ errorRx = (IF CallsReturned = 0 THEN ERR_NONE ELSE ERR_NO_DATA)

\* C28 witness: the silent inverter has been queried for three whole cycles
\* and the machine is in AwaitingLiveData again, with the error count 0
C28_Witness ==
    /\ NeverAnswered
    /\ Running
    /\ main_pc = "call"
    /\ ticks = 39
    /\ stateQuery = STATE_QUERY_LIVE_DATA
    /\ countError = 0
    /\ QueryOf(tty_tx) = STATE_QUERY_LIVE_DATA

\* C29: at the end of every call the online-timeout counter is in 0..30, it
\* is 30 whenever the online flag is false and in 0..29 whenever the flag is
\* true; and a call that starts offline and does not get a live-data reply
\* in AwaitingLiveData leaves the counter as it was.
C29_TimeoutCounter ==
    [][ (pc' = "run") =>
          /\ timeoutInverterOnline' \in 0..TIMEOUT_INVERTER_ONLINE
          /\ ~solax_InverterOnline' => (timeoutInverterOnline' = TIMEOUT_INVERTER_ONLINE)
          /\ solax_InverterOnline' => (timeoutInverterOnline' < TIMEOUT_INVERTER_ONLINE)
          /\ (~solax_InverterOnline
                /\ ~(stateQuery = STATE_QUERY_LIVE_DATA /\ TickSucceeded))
               => (timeoutInverterOnline' = timeoutInverterOnline)
      ]_vars

\* C30: at the end of every call the error count is in 0..9 when the state
\* is AwaitingBroadcast and in 0..2 when it is AwaitingAddressConfirm or
\* AwaitingLiveData, and it is 0 at the end of every call in which the state
\* changed.
C30_ErrorCountRange ==
    [][ (pc' = "run") =>
          /\ countError' >= 0
          /\ (stateQuery' = STATE_BROARDCAST) => (countError' <= 9)
          /\ (stateQuery' \in { STATE_INVERTER_ADDRESS, STATE_QUERY_LIVE_DATA })
               => (countError' <= 2)
          /\ (stateQuery' # stateQuery) => (countError' = 0)
      ]_vars

\* C30 witness: the third failed call in a row (a damaged checksum) has moved
\* the machine to AwaitingBroadcast and set the count from 2 to 0
C30_Witness ==
    /\ pc = "run"
    /\ stateQuery = STATE_BROARDCAST
    /\ countError = 0
    /\ errorRx = ERR_CRC_ERROR
    /\ QueryOf(tty_tx) = STATE_BROARDCAST

(***************************************************************************)
(* Claims on the daemon with an inverter that answers                      *)
(***************************************************************************)
\* C31: if from some pass on every query written is answered in the
\* following pass by its reply (broadcast reply, address confirmation with
\* payload byte 0x06, live-data reply, each with a right checksum), then the
\* machine eventually is in AwaitingLiveData and stays there for ever, the
\* online flag eventually is true and stays true, and the quality of service
\* eventually reaches 1.00.
C31_ResponsiveInverter ==
    (<>[]Responsive)
      => /\ <>[](stateQuery = STATE_QUERY_LIVE_DATA)
         /\ <>[]solax_InverterOnline
         /\ <>(solax_QualityOfService
                 = [num |-> QUALITY_OF_SERVICE_COUNT, den |-> QUALITY_OF_SERVICE_COUNT])

\* C31 witness: the inverter answers after an outage that had taken the
\* machine out of AwaitingLiveData; the machine has gone through discovery
\* again, is online, and all 100 slots hold valid samples
C31_Witness ==
    /\ Responsive
    /\ script.mult = 1
    /\ stateQuery = STATE_QUERY_LIVE_DATA
    /\ solax_InverterOnline
    /\ solax_InverterSerialNumber # InitialSerial
    /\ solax_QualityOfService
         = [num |-> QUALITY_OF_SERVICE_COUNT, den |-> QUALITY_OF_SERVICE_COUNT]
    /\ Cardinality(ValidSlots) = QUALITY_OF_SERVICE_COUNT

====
